---- MODULE Spec2Model ----
(***************************************************************************)
(* LAFM-Net training pipeline (src/train_lafm_net.py): the early-stopping  *)
(* controller, the two-phase training orchestrator and label               *)
(* consolidation.                                                          *)
(*                                                                         *)
(* Weight tensors are cells of a memory `mem`: each module owns one cell   *)
(* (its parameters and buffers), and a controller's snapshot is a cell of  *)
(* its own, so that aliasing between a snapshot and the live model can be  *)
(* told apart from a deep copy.  Weight values and validation losses are   *)
(* small naturals; a gradient step or a loss may produce any of them.      *)
(***************************************************************************)
EXTENDS Integers, Sequences, FiniteSets, TLC

\* ---------------------------------------------------------------- bounds
MaxPatience == 2
MaxDelta == 2
MaxLoss == 2
MaxWeight == 1
MaxObs == 4
MaxEpochs == 2
TrainBatches == 2
ValBatches == 1
MaxFrags == 2
MaxLabels == 2
MaxCols == 1
MaxRows == 1
MaxChannels == 2
MaxImageSize == 2
MaxRowLen == 5
MaxSamples == 1
MaxClass == 1

Losses == 0..MaxLoss
Weights == 0..MaxWeight

\* ------------------------------------------------------ program constants
\* np.inf, the initial val_loss_min
Inf == 1000
\* default of the delta parameter of EarlyStopping.__init__
DefaultDelta == 0
\* CONFIG["total_features"]
TotalFeatures == 64
\* CONFIG["augmentation_flip_prob"] and the flip_prob default, in hundredths
FlipProb == 30

None == <<>>

Modules == {"unet", "clf", "masker"}

VARIABLES
    pc,             \* position in main_training_and_evaluation / harness
    config,         \* unet_epochs, classifier_epochs, early_stopping_patience
    ep,             \* epoch index of the running phase
    batch,          \* batches done in the running pass
    mem,            \* tensor storage: cell -> weight value
    training,       \* module -> nn.Module.training flag
    requires_grad,  \* module -> requires_grad of its parameters
    stopper,        \* the EarlyStopping objects constructed so far, by phase
    last_stepped,   \* modules whose parameters the last opt.step() changed
    error,          \* an exception was raised
    hist,           \* losses fed to the controller under test, in order
    stopped_at,     \* index in hist at which early_stop became True, 0 if never
    last_op,        \* last operation applied to the controller under test
    pre_restore,    \* per finished phase: model weights just before restore
    label,          \* last label given to consolidate_labels
    consolidated,   \* consolidate_labels' output list so far
    table,          \* the loaded feature table: numeric columns and rows
    dataset,        \* a MultichannelFlowDataset and the rows it was built from
    view            \* what the last __getitem__ returned

vars == <<pc, config, ep, batch, mem, training, requires_grad, stopper,
          last_stepped, error, hist, stopped_at, last_op, pre_restore,
          label, consolidated, table, dataset, view>>

trainVars == <<pc, config, ep, batch, mem, training, requires_grad, stopper,
               last_stepped, error, pre_restore>>
harnessVars == <<hist, stopped_at, last_op>>
labelVars == <<label, consolidated>>
dataVars == <<table, dataset, view>>

\* ------------------------------------------------------------ EarlyStopping

EarlyStopping(patience, delta) ==
    [patience |-> patience, delta |-> delta, counter |-> 0,
     best_score |-> None, early_stop |-> FALSE, val_loss_min |-> Inf,
     best_model_state_dict |-> None]

\* copy.deepcopy(model.state_dict()): new storage dst holding src's values
deepcopy(memory, src, dst) ==
    [c \in (DOMAIN memory) \cup {dst} |-> IF c = dst THEN memory[src] ELSE memory[c]]

\* a checkpoint that keeps the state_dict itself: it shares the model's storage
save_checkpoint_alias(s, val_loss, model, ckpt, memory) ==
    [st  |-> [s EXCEPT !.best_model_state_dict = <<model>>,
                       !.val_loss_min = val_loss],
     mem |-> memory]

save_checkpoint(s, val_loss, model, ckpt, memory) ==
    [st  |-> [s EXCEPT !.best_model_state_dict = <<ckpt>>,
                       !.val_loss_min = val_loss],
     mem |-> deepcopy(memory, model, ckpt)]

NoImprovement_le(score, best, delta) == score <= best + delta

\* elif score < self.best_score + self.delta
NoImprovement(score, best, delta) == score < best + delta

PatienceReached_gt(counter, patience) == counter > patience

\* if self.counter >= self.patience
PatienceReached(counter, patience) == counter >= patience

\* __call__ without the counter reset of the improvement branch
EarlyStopping_call_noreset(s, val_loss, model, ckpt, memory) ==
    LET score == 0 - val_loss IN
    IF s.best_score = None
    THEN save_checkpoint([s EXCEPT !.best_score = <<score>>],
                         val_loss, model, ckpt, memory)
    ELSE IF NoImprovement(score, s.best_score[1], s.delta)
    THEN LET c == s.counter + 1 IN
         [st  |-> [s EXCEPT !.counter = c,
                            !.early_stop = IF PatienceReached(c, s.patience)
                                           THEN TRUE ELSE @],
          mem |-> memory]
    ELSE save_checkpoint([s EXCEPT !.best_score = <<score>>],
                         val_loss, model, ckpt, memory)

\* EarlyStopping.__call__(val_loss, model); ckpt is the storage the deep copy
\* of this controller's snapshot goes to
EarlyStopping_call(s, val_loss, model, ckpt, memory) ==
    LET score == 0 - val_loss IN
    IF s.best_score = None
    THEN save_checkpoint([s EXCEPT !.best_score = <<score>>],
                         val_loss, model, ckpt, memory)
    ELSE IF NoImprovement(score, s.best_score[1], s.delta)
    THEN LET c == s.counter + 1 IN
         [st  |-> [s EXCEPT !.counter = c,
                            !.early_stop = IF PatienceReached(c, s.patience)
                                           THEN TRUE ELSE @],
          mem |-> memory]
    ELSE LET r == save_checkpoint([s EXCEPT !.best_score = <<score>>],
                                  val_loss, model, ckpt, memory) IN
         [st  |-> [r.st EXCEPT !.counter = 0],
          mem |-> r.mem]

\* load_best_weights without the "is not None" guard: load_state_dict(None) raises
load_best_weights_unguarded(s, model, memory) ==
    IF s.best_model_state_dict # None
    THEN [mem |-> [memory EXCEPT ![model] = memory[s.best_model_state_dict[1]]],
          err |-> FALSE]
    ELSE [mem |-> memory, err |-> TRUE]

\* a restore that does nothing: the model keeps its last-epoch weights
load_best_weights_skip(s, model, memory) ==
    [mem |-> memory, err |-> FALSE]

\* EarlyStopping.load_best_weights(model): load_state_dict copies the snapshot's
\* values into the model's own storage
load_best_weights(s, model, memory) ==
    IF s.best_model_state_dict # None
    THEN [mem |-> [memory EXCEPT ![model] = memory[s.best_model_state_dict[1]]],
          err |-> FALSE]
    ELSE [mem |-> memory, err |-> FALSE]

HasSnapshot(s) == s.best_model_state_dict # None
SnapshotOf(s, memory) == memory[s.best_model_state_dict[1]]

\* one snapshot cell for both controllers
Ckpt_shared(phase) == "ckpt1"

\* snapshot storage owned by the controller of a phase
Ckpt(phase) == IF phase = 1 THEN "ckpt1" ELSE "ckpt2"

\* ------------------------------------------------ gradient flow (PyTorch)

\* optim.Adam(unet.parameters())
OptParams1 == {"unet"}

\* optim.Adam(list(classifier.parameters()) + list(adaptive_masker.parameters()))
OptParams2 == {"clf", "masker"}

\* recon = unet(noisy)
Forward1 == {"unet"}

\* enh = feature_masking_enhancement(...); preds = classifier(enh)
Forward2 == {"unet", "masker", "clf"}

\* modules feature_masking_enhancement runs inside "with torch.no_grad()"
FMENoGrad == {"unet", "masker"}

\* modules with BatchNorm layers, whose running statistics are buffers of
\* the state_dict
HasBatchNorm == {"unet", "clf"}

\* feature_masking_enhancement: frozen_unet.eval(); adaptive_masker.eval()
FMEModes(tr) == [tr EXCEPT !["unet"] = FALSE, !["masker"] = FALSE]

\* parameters that get a gradient from loss.backward(): those used with
\* gradient tracking on and requiring grad
GradReceivers(forward, nograd, rg) == {m \in forward \ nograd : rg[m]}

\* parameters opt.step() changes: Adam skips a parameter whose grad is None
Stepped(opt, forward, nograd, rg) == opt \cap GradReceivers(forward, nograd, rg)

\* modules whose BatchNorm running statistics a forward pass updates
BufferUpdated(forward, tr) == {m \in forward \cap HasBatchNorm : tr[m]}

\* an end-to-end variant that also fine-tunes the autoencoder
Phase2Stepped_finetune(rg) == {"clf", "unet"}

\* what opt.step() of a Phase 2 training batch changes
Phase2Stepped(rg) == Stepped(OptParams2, Forward2, FMENoGrad, rg)

\* what opt.step() of a Phase 1 training batch changes
Phase1Stepped(rg) == Stepped(OptParams1, Forward1, {}, rg)

\* the cells in `changed` get new values, any of them
Rewritten(memory, changed, w) ==
    [c \in DOMAIN memory |-> IF c \in changed THEN w[c] ELSE memory[c]]

FreezeUnet_forgotten(rg) == rg

\* for p in unet.parameters(): p.requires_grad=False
FreezeUnet(rg) == [rg EXCEPT !["unet"] = FALSE]

\* --------------------------------- main_training_and_evaluation (Spec)

\* adaptive_masker is built when the module is loaded; the table is what
\* load_and_prepare_data_from_parquets finds: nothing, or some numeric
\* columns and rows
Init ==
    /\ pc = "init"
    /\ \E ue \in 0..MaxEpochs, ce \in 0..MaxEpochs, p \in 1..MaxPatience,
          tf \in {0, TotalFeatures} :
          config = [unet_epochs |-> ue, classifier_epochs |-> ce, patience |-> p,
                    total_features |-> tf]
    /\ ep = 0
    /\ batch = 0
    /\ mem = [m \in {"masker"} |-> 0]
    /\ training = [m \in Modules |-> TRUE]
    /\ requires_grad = [m \in Modules |-> TRUE]
    /\ stopper = <<>>
    /\ last_stepped = {}
    /\ error = FALSE
    /\ hist = <<>>
    /\ stopped_at = 0
    /\ last_op = "new"
    /\ pre_restore = <<>>
    /\ label = <<>>
    /\ consolidated = <<>>
    /\ table \in {None} \cup
          {<<[n_numeric |-> c, n_rows |-> r]>> : c \in 0..MaxCols, r \in 0..MaxRows}
    /\ dataset = None
    /\ view = None

Min3(a, b, c) ==
    IF a <= b /\ a <= c THEN a ELSE IF b <= c THEN b ELSE c

\* process_features_multichannel that only gives up on an empty table
ProcessFeaturesAborts_noclamp(t, total_features, kept) ==
    t.n_numeric = 0 \/ t.n_rows = 0

\* process_features_multichannel returns its tuple of None: the numeric table
\* is empty (no column or no row), or actual_components <= 0; kept is the
\* number of columns correlation filtering leaves
ProcessFeaturesAborts(t, total_features, kept) ==
    \/ t.n_numeric = 0 \/ t.n_rows = 0
    \/ Min3(total_features, kept, t.n_rows) <= 0

\* main_training_and_evaluation up to "Initializing models...": load,
\* process_features_multichannel, the splits, the datasets and loaders, unet
\* and clf.  Without a table it returns; when process_features_multichannel
\* gives up it returns four values where five are unpacked, which raises
\* ValueError; either way nothing after it runs.
PrepareData ==
    /\ pc = "init"
    /\ IF table = None
       THEN /\ pc' = "aborted"
            /\ UNCHANGED <<mem, error, table>>
       ELSE \E kept \in (IF table[1].n_numeric = 0 THEN {0} ELSE 1..table[1].n_numeric) :
            IF ProcessFeaturesAborts(table[1], config.total_features, kept)
            THEN /\ pc' = "aborted"
                 /\ error' = TRUE
                 /\ UNCHANGED <<mem, table>>
            ELSE /\ pc' = "ready"
                 /\ mem' = [m \in Modules |-> IF m \in DOMAIN mem THEN mem[m] ELSE 0]
                 /\ table' = None
                 /\ UNCHANGED error
    /\ UNCHANGED <<config, ep, batch, training, requires_grad, stopper,
                   last_stepped, pre_restore, harnessVars, labelVars,
                   dataset, view>>

\* train_masking_unet: optimizer, scheduler and controller are set up
StartPhase1 ==
    /\ pc = "ready"
    /\ stopper' = <<EarlyStopping(config.patience, DefaultDelta)>>
    /\ ep' = 0
    /\ pc' = "p1_epoch"
    /\ UNCHANGED <<config, batch, mem, training, requires_grad, last_stepped,
                   error, pre_restore, harnessVars, labelVars, dataVars>>

\* for ep in range(unet_epochs): unet.train()
P1EpochBegin ==
    /\ pc = "p1_epoch"
    /\ ep < config.unet_epochs
    /\ training' = [training EXCEPT !["unet"] = TRUE]
    /\ batch' = 0
    /\ pc' = "p1_train"
    /\ UNCHANGED <<config, ep, mem, requires_grad, stopper, last_stepped,
                   error, pre_restore, harnessVars, labelVars, dataVars>>

\* one training batch: forward, loss.backward(), opt.step()
P1TrainBatch ==
    /\ pc = "p1_train"
    /\ batch < TrainBatches
    /\ LET stepped == Phase1Stepped(requires_grad)
           changed == stepped \cup BufferUpdated(Forward1, training)
       IN /\ \E w \in [changed -> Weights] : mem' = Rewritten(mem, changed, w)
          /\ last_stepped' = stepped
    /\ batch' = batch + 1
    /\ UNCHANGED <<pc, config, ep, training, requires_grad, stopper, error,
                   pre_restore, harnessVars, labelVars, dataVars>>

\* a validation pass entered without unet.eval()
P1BeginVal_noeval ==
    /\ pc = "p1_train"
    /\ batch = TrainBatches
    /\ batch' = 0
    /\ pc' = "p1_val"
    /\ UNCHANGED <<config, ep, mem, training, requires_grad, stopper, last_stepped,
                   error, pre_restore, harnessVars, labelVars, dataVars>>

\* the training batches are over: unet.eval()
P1BeginVal ==
    /\ pc = "p1_train"
    /\ batch = TrainBatches
    /\ training' = [training EXCEPT !["unet"] = FALSE]
    /\ batch' = 0
    /\ pc' = "p1_val"
    /\ UNCHANGED <<config, ep, mem, requires_grad, stopper, last_stepped,
                   error, pre_restore, harnessVars, labelVars, dataVars>>

\* one validation batch under torch.no_grad(): a forward pass only
P1ValBatch ==
    /\ pc = "p1_val"
    /\ batch < ValBatches
    /\ LET changed == BufferUpdated(Forward1, training)
       IN \E w \in [changed -> Weights] : mem' = Rewritten(mem, changed, w)
    /\ batch' = batch + 1
    /\ UNCHANGED <<pc, config, ep, training, requires_grad, stopper,
                   last_stepped, error, pre_restore, harnessVars, labelVars, dataVars>>

\* an epoch end that ignores stopper.early_stop
P1EpochEnd_nobreak ==
    /\ pc = "p1_val"
    /\ batch = ValBatches
    /\ \E v_avg \in Losses :
          LET r == EarlyStopping_call(stopper[1], v_avg, "unet", Ckpt(1), mem) IN
          /\ stopper' = [stopper EXCEPT ![1] = r.st]
          /\ mem' = r.mem
          /\ pc' = "p1_epoch"
          /\ ep' = ep + 1
    /\ UNCHANGED <<config, batch, training, requires_grad, last_stepped,
                   error, pre_restore, harnessVars, labelVars, dataVars>>

\* stopper(v_avg, unet); if stopper.early_stop: break
P1EpochEnd ==
    /\ pc = "p1_val"
    /\ batch = ValBatches
    /\ \E v_avg \in Losses :
          LET r == EarlyStopping_call(stopper[1], v_avg, "unet", Ckpt(1), mem) IN
          /\ stopper' = [stopper EXCEPT ![1] = r.st]
          /\ mem' = r.mem
          /\ IF r.st.early_stop
             THEN pc' = "p1_exit" /\ ep' = ep
             ELSE pc' = "p1_epoch" /\ ep' = ep + 1
    /\ UNCHANGED <<config, batch, training, requires_grad, last_stepped,
                   error, pre_restore, harnessVars, labelVars, dataVars>>

\* range(unet_epochs) is exhausted
P1LoopExit ==
    /\ pc = "p1_epoch"
    /\ ep >= config.unet_epochs
    /\ pc' = "p1_exit"
    /\ UNCHANGED <<config, ep, batch, mem, training, requires_grad, stopper,
                   last_stepped, error, pre_restore, harnessVars, labelVars, dataVars>>

\* stopper.load_best_weights(unet); return unet, history
P1Finish ==
    /\ pc = "p1_exit"
    /\ LET r == load_best_weights(stopper[1], "unet", mem) IN
          /\ mem' = r.mem
          /\ error' = (error \/ r.err)
    /\ pre_restore' = Append(pre_restore, mem["unet"])
    /\ pc' = "p1_returned"
    /\ UNCHANGED <<config, ep, batch, training, requires_grad, stopper,
                   last_stepped, harnessVars, labelVars, dataVars>>

\* for p in unet.parameters(): p.requires_grad=False
P1Freeze ==
    /\ pc = "p1_returned"
    /\ requires_grad' = FreezeUnet(requires_grad)
    /\ pc' = "p1_frozen"
    /\ UNCHANGED <<config, ep, batch, mem, training, stopper, last_stepped,
                   error, pre_restore, harnessVars, labelVars, dataVars>>

\* train_classifier_end_to_end: frozen_unet.eval(), optimizer, second controller
StartPhase2 ==
    /\ pc = "p1_frozen"
    /\ training' = [training EXCEPT !["unet"] = FALSE]
    /\ stopper' = Append(stopper, EarlyStopping(config.patience, DefaultDelta))
    /\ ep' = 0
    /\ batch' = 0
    /\ pc' = "p2_epoch"
    /\ UNCHANGED <<config, mem, requires_grad, last_stepped, error,
                   pre_restore, harnessVars, labelVars, dataVars>>

\* for ep in range(classifier_epochs): classifier.train()
P2EpochBegin ==
    /\ pc = "p2_epoch"
    /\ ep < config.classifier_epochs
    /\ training' = [training EXCEPT !["clf"] = TRUE]
    /\ batch' = 0
    /\ pc' = "p2_train"
    /\ UNCHANGED <<config, ep, mem, requires_grad, stopper, last_stepped,
                   error, pre_restore, harnessVars, labelVars, dataVars>>

\* one training batch: enhancement, classifier forward, loss.backward(), opt.step()
P2TrainBatch ==
    /\ pc = "p2_train"
    /\ batch < TrainBatches
    /\ training' = FMEModes(training)
    /\ LET stepped == Phase2Stepped(requires_grad)
           changed == stepped \cup BufferUpdated(Forward2, training')
       IN /\ \E w \in [changed -> Weights] : mem' = Rewritten(mem, changed, w)
          /\ last_stepped' = stepped
    /\ batch' = batch + 1
    /\ UNCHANGED <<pc, config, ep, requires_grad, stopper, error,
                   pre_restore, harnessVars, labelVars, dataVars>>

\* the training batches are over: classifier.eval()
P2BeginVal ==
    /\ pc = "p2_train"
    /\ batch = TrainBatches
    /\ training' = [training EXCEPT !["clf"] = FALSE]
    /\ batch' = 0
    /\ pc' = "p2_val"
    /\ UNCHANGED <<config, ep, mem, requires_grad, stopper, last_stepped,
                   error, pre_restore, harnessVars, labelVars, dataVars>>

\* one validation batch under torch.no_grad()
P2ValBatch ==
    /\ pc = "p2_val"
    /\ batch < ValBatches
    /\ training' = FMEModes(training)
    /\ LET changed == BufferUpdated(Forward2, training')
       IN \E w \in [changed -> Weights] : mem' = Rewritten(mem, changed, w)
    /\ batch' = batch + 1
    /\ UNCHANGED <<pc, config, ep, requires_grad, stopper, last_stepped,
                   error, pre_restore, harnessVars, labelVars, dataVars>>

\* stopper(v_avg, classifier); if stopper.early_stop: break
P2EpochEnd ==
    /\ pc = "p2_val"
    /\ batch = ValBatches
    /\ \E v_avg \in Losses :
          LET r == EarlyStopping_call(stopper[2], v_avg, "clf", Ckpt(2), mem) IN
          /\ stopper' = [stopper EXCEPT ![2] = r.st]
          /\ mem' = r.mem
          /\ IF r.st.early_stop
             THEN pc' = "p2_exit" /\ ep' = ep
             ELSE pc' = "p2_epoch" /\ ep' = ep + 1
    /\ UNCHANGED <<config, batch, training, requires_grad, last_stepped,
                   error, pre_restore, harnessVars, labelVars, dataVars>>

\* range(classifier_epochs) is exhausted
P2LoopExit ==
    /\ pc = "p2_epoch"
    /\ ep >= config.classifier_epochs
    /\ pc' = "p2_exit"
    /\ UNCHANGED <<config, ep, batch, mem, training, requires_grad, stopper,
                   last_stepped, error, pre_restore, harnessVars, labelVars, dataVars>>

\* stopper.load_best_weights(classifier); return classifier, history
P2Finish ==
    /\ pc = "p2_exit"
    /\ LET r == load_best_weights(stopper[2], "clf", mem) IN
          /\ mem' = r.mem
          /\ error' = (error \/ r.err)
    /\ pre_restore' = Append(pre_restore, mem["clf"])
    /\ pc' = "p2_returned"
    /\ UNCHANGED <<config, ep, batch, training, requires_grad, stopper,
                   last_stepped, harnessVars, labelVars, dataVars>>

\* the before/after figure: feature_masking_enhancement on one training batch
ShowEnhanced ==
    /\ pc = "p2_returned"
    /\ training' = FMEModes(training)
    /\ LET changed == BufferUpdated({"unet", "masker"}, training')
       IN \E w \in [changed -> Weights] : mem' = Rewritten(mem, changed, w)
    /\ pc' = "p2_shown"
    /\ UNCHANGED <<config, ep, batch, requires_grad, stopper, last_stepped,
                   error, pre_restore, harnessVars, labelVars, dataVars>>

\* evaluate_model on the test loader (eval mode, no_grad), then the saves
Evaluate ==
    /\ pc = "p2_shown"
    /\ training' = [FMEModes(training) EXCEPT !["clf"] = FALSE]
    /\ LET changed == BufferUpdated(Forward2, training')
       IN \E w \in [changed -> Weights] : mem' = Rewritten(mem, changed, w)
    /\ pc' = "evaluated"
    /\ UNCHANGED <<config, ep, batch, requires_grad, stopper, last_stepped,
                   error, pre_restore, harnessVars, labelVars, dataVars>>

Next ==
    \/ PrepareData
    \/ StartPhase1 \/ P1EpochBegin \/ P1TrainBatch \/ P1BeginVal
    \/ P1ValBatch \/ P1EpochEnd \/ P1LoopExit \/ P1Finish \/ P1Freeze
    \/ StartPhase2 \/ P2EpochBegin \/ P2TrainBatch \/ P2BeginVal
    \/ P2ValBatch \/ P2EpochEnd \/ P2LoopExit \/ P2Finish
    \/ ShowEnhanced \/ Evaluate

Spec == Init /\ [][Next]_vars

\* the orchestrator state a position belongs to
State ==
    CASE pc \in {"init", "ready", "aborted"} -> "INIT"
      [] pc \in {"p1_epoch", "p1_train", "p1_val"} -> "PHASE1_TRAIN"
      [] pc \in {"p1_exit", "p1_returned", "p1_frozen"} -> "PHASE1_DONE"
      [] pc \in {"p2_epoch", "p2_train", "p2_val"} -> "PHASE2_TRAIN"
      [] pc \in {"p2_exit", "p2_returned", "p2_shown"} -> "PHASE2_DONE"
      [] pc = "evaluated" -> "EVALUATED"
      [] OTHER -> "NONE"

\* ---------------------------------------------- claims on the orchestrator

Phase1Positions == {"p1_epoch", "p1_train", "p1_val", "p1_exit"}
AfterRestore1 == {"p1_returned", "p1_frozen", "p2_epoch", "p2_train", "p2_val",
                  "p2_exit", "p2_returned", "p2_shown", "evaluated"}
AfterRestore2 == {"p2_returned", "p2_shown", "evaluated"}

\* C1: every Phase 2 training batch steps the mask gate's parameters
\* together with the classifier's, and no Phase 1 batch steps them.
C1_MaskGateTrainedInPhase2 ==
    /\ (pc = "p2_train" /\ batch >= 1) => {"clf", "masker"} \subseteq last_stepped
    /\ pc \in Phase1Positions => "masker" \notin last_stepped

\* C6: a phase that used up its epoch budget with the controller never
\* stopped ends, without an error, with its model holding the weights of the
\* controller's latest snapshot (one exists as soon as an epoch ran).
C6_BudgetExhaustedRestoresBest ==
    /\ (pc \in AfterRestore1 /\ ~stopper[1].early_stop) =>
          /\ ~error
          /\ config.unet_epochs >= 1 => HasSnapshot(stopper[1])
          /\ HasSnapshot(stopper[1]) => mem["unet"] = SnapshotOf(stopper[1], mem)
    /\ (pc \in AfterRestore2 /\ ~stopper[2].early_stop) =>
          /\ ~error
          /\ config.classifier_epochs >= 1 => HasSnapshot(stopper[2])
          /\ HasSnapshot(stopper[2]) => mem["clf"] = SnapshotOf(stopper[2], mem)

\* the budget ran out, and the restored weights are not the last epoch's
C6_Witness ==
    /\ pc = "p1_returned"
    /\ ~stopper[1].early_stop
    /\ ep = config.unet_epochs
    /\ ep >= 2
    /\ pre_restore[1] # mem["unet"]
    /\ mem["unet"] = SnapshotOf(stopper[1], mem)

\* C7: from the restore that ends Phase 1 on, no step changes the
\* autoencoder's weights.
C7_AutoencoderFrozen ==
    [][(pc \in AfterRestore1) => (mem'["unet"] = mem["unet"])]_vars

\* Phase 2 has trained and validated, and the classifier has moved
C7_Witness ==
    /\ pc = "evaluated"
    /\ stopper[2].counter >= 1
    /\ mem["clf"] # 0
    /\ mem["unet"] # 0
    /\ mem["unet"] = SnapshotOf(stopper[1], mem)

Rank(st) ==
    CASE st = "INIT" -> 0
      [] st = "PHASE1_TRAIN" -> 1
      [] st = "PHASE1_DONE" -> 2
      [] st = "PHASE2_TRAIN" -> 3
      [] st = "PHASE2_DONE" -> 4
      [] st = "EVALUATED" -> 5
      [] OTHER -> 6

\* C8: the orchestrator only moves from a state to the next one in the order
\* INIT, PHASE1_TRAIN, PHASE1_DONE, PHASE2_TRAIN, PHASE2_DONE, EVALUATED;
\* Phase 2 training runs only after Phase 1's restore and with the
\* autoencoder frozen, evaluation only after Phase 2's restore.
C8_StateOrder ==
    /\ [][Rank(State') \in {Rank(State), Rank(State) + 1}]_vars
    /\ [](State = "PHASE2_TRAIN" =>
             /\ Len(pre_restore) = 1
             /\ ~requires_grad["unet"]
             /\ HasSnapshot(stopper[1]) => mem["unet"] = SnapshotOf(stopper[1], mem))
    /\ [](State = "EVALUATED" =>
             /\ Len(pre_restore) = 2
             /\ HasSnapshot(stopper[2]) => mem["clf"] = SnapshotOf(stopper[2], mem))

\* evaluation is reached after both phases trained and both restores changed
\* the weights
C8_Witness ==
    /\ State = "EVALUATED"
    /\ pre_restore[1] # mem["unet"]
    /\ pre_restore[2] # mem["clf"]

\* the table has no numeric column, or min(requested, columns, rows) is zero
BadInput ==
    /\ table # None
    /\ \/ table[1].n_numeric = 0
       \/ Min3(config.total_features, table[1].n_numeric, table[1].n_rows) = 0

NothingBuilt ==
    /\ pc \in {"init", "aborted"}
    /\ State = "INIT"
    /\ DOMAIN mem = {"masker"}
    /\ stopper = <<>>
    /\ ep = 0
    /\ batch = 0
    /\ last_stepped = {}

\* C15: with no numeric column, or a clamped component count of zero, the
\* run ends before unet and clf are built and before any epoch: it stays in
\* INIT and no step takes it anywhere else.
C15_AbortBeforeModels ==
    /\ [](BadInput => NothingBuilt)
    /\ [][BadInput => NothingBuilt']_vars

\* the clamp was zero on a table with columns and rows, and the run ended
C15_Witness ==
    /\ pc = "aborted"
    /\ table # None
    /\ table[1].n_numeric >= 1
    /\ table[1].n_rows >= 1
    /\ config.total_features = 0
    /\ NothingBuilt

\* the program runs on its own: a step that can be taken is taken
SpecFair == Spec /\ WF_vars(Next)

Stopped(k) == Len(stopper) >= k /\ stopper[k].early_stop

TrainOf(k) == IF k = 1 THEN "PHASE1_TRAIN" ELSE "PHASE2_TRAIN"

DoneOf(k) == IF k = 1 THEN "PHASE1_DONE" ELSE "PHASE2_DONE"

Budget(k) == IF k = 1 THEN config.unet_epochs ELSE config.classifier_epochs

BatchPositions(k) == IF k = 1 THEN {"p1_train", "p1_val"} ELSE {"p2_train", "p2_val"}

\* C16: a phase is in TRAIN only while its controller has not stopped and
\* epochs remain; it leaves TRAIN for DONE only at an epoch boundary where the
\* controller has become STOPPED or the budget is used up; once STOPPED it
\* never trains again; and it always leaves TRAIN, after at most the
\* configured number of epochs.
C16_PhaseEndsOnStopOrBudget ==
    /\ [](\A k \in {1, 2} : State = TrainOf(k) =>
            /\ ~Stopped(k)
            /\ ep <= Budget(k)
            /\ pc \in BatchPositions(k) => ep < Budget(k))
    /\ [][\A k \in {1, 2} :
            /\ (State = TrainOf(k) /\ State' # TrainOf(k)) =>
                  /\ State' = DoneOf(k)
                  /\ Stopped(k)' \/ ep' >= Budget(k)
                  /\ pc \notin {"p1_train", "p2_train"}
            /\ Stopped(k) => (Stopped(k)' /\ State' # TrainOf(k))]_vars
    /\ (State = "PHASE1_TRAIN") ~> (State = "PHASE1_DONE")
    /\ (State = "PHASE2_TRAIN") ~> (State = "PHASE2_DONE")

\* the first phase ended on its controller's signal, the second on its budget
C16_Witness ==
    /\ State = "PHASE2_DONE"
    /\ Stopped(1)
    /\ ~Stopped(2)
    /\ ep = config.classifier_epochs
    /\ config.classifier_epochs >= 1
    /\ stopper[1].counter >= stopper[1].patience

\* C17: while a validation pass runs, and in the controller call that ends
\* it, no weight of the autoencoder, the mask gate or the classifier changes;
\* a snapshot taken by that call holds the weights the epoch's training
\* batches left.
C17_ValidationUpdatesNothing ==
    [][(pc \in {"p1_val", "p2_val"}) =>
        /\ \A m \in Modules : mem'[m] = mem[m]
        /\ (pc = "p1_val" /\ pc' # pc /\ stopper'[1].counter = 0)
              => mem'[Ckpt(1)] = mem["unet"]
        /\ (pc = "p2_val" /\ pc' # pc /\ stopper'[2].counter = 0)
              => mem'[Ckpt(2)] = mem["clf"]]_vars

\* every validation batch of a second-phase epoch has run, after training
\* batches that changed the classifier
C17_Witness ==
    /\ pc = "p2_val"
    /\ batch = ValBatches
    /\ ValBatches >= 1
    /\ mem["clf"] # 0
    /\ "clf" \in last_stepped

\* C18: the second phase starts with a controller of its own, with no best
\* score, counter zero, no snapshot and not stopped, whatever state the first
\* phase's controller ended in; from then on nothing changes the first
\* controller or the weights its snapshot holds.
C18_ControllersIndependent ==
    /\ [][(pc = "p1_frozen") =>
            /\ Len(stopper') = 2
            /\ stopper'[2] = EarlyStopping(config.patience, DefaultDelta)
            /\ stopper'[2].best_score = None
            /\ stopper'[2].counter = 0
            /\ ~HasSnapshot(stopper'[2])
            /\ ~stopper'[2].early_stop
            /\ stopper'[1] = stopper[1]]_vars
    /\ [][(Len(stopper) = 2) =>
            /\ stopper'[1] = stopper[1]
            /\ HasSnapshot(stopper[1]) =>
                  SnapshotOf(stopper[1], mem') = SnapshotOf(stopper[1], mem)]_vars

\* the first controller stopped; the second has since snapshotted other
\* weights in a cell of its own
C18_Witness ==
    /\ Len(stopper) = 2
    /\ stopper[1].early_stop
    /\ HasSnapshot(stopper[1])
    /\ HasSnapshot(stopper[2])
    /\ stopper[2].best_model_state_dict # stopper[1].best_model_state_dict
    /\ SnapshotOf(stopper[2], mem) # SnapshotOf(stopper[1], mem)
    /\ stopper[2].best_score # stopper[1].best_score

\* ------------------------------------------- controller harness (SpecES)
\* One EarlyStopping object with any patience and delta, watching "unet":
\* it is fed losses, the live model is trained in between, and its best
\* weights are restored, in any order.

InitES ==
    /\ pc = "harness"
    /\ config = [unet_epochs |-> 0, classifier_epochs |-> 0, patience |-> 1]
    /\ ep = 0
    /\ batch = 0
    /\ mem = [m \in Modules |-> 0]
    /\ training = [m \in Modules |-> TRUE]
    /\ requires_grad = [m \in Modules |-> TRUE]
    /\ \E p \in 1..MaxPatience, d \in 0..MaxDelta :
          stopper = <<EarlyStopping(p, d)>>
    /\ last_stepped = {}
    /\ error = FALSE
    /\ hist = <<>>
    /\ stopped_at = 0
    /\ last_op = "new"
    /\ pre_restore = <<>>
    /\ label = <<>>
    /\ consolidated = <<>>
    /\ table = None
    /\ dataset = None
    /\ view = None

\* stopper(val_loss, unet)
ESCall ==
    /\ pc = "harness"
    /\ Len(hist) < MaxObs
    /\ \E val_loss \in Losses :
          LET r == EarlyStopping_call(stopper[1], val_loss, "unet", Ckpt(1), mem) IN
          /\ stopper' = <<r.st>>
          /\ mem' = r.mem
          /\ hist' = Append(hist, val_loss)
          /\ stopped_at' = IF stopped_at = 0 /\ r.st.early_stop
                           THEN Len(hist) + 1 ELSE stopped_at
    /\ last_op' = "call"
    /\ UNCHANGED <<pc, config, ep, batch, training, requires_grad,
                   last_stepped, error, pre_restore, label, consolidated, dataVars>>

\* an optimizer step on the live model between two observations
ESTrain ==
    /\ pc = "harness"
    /\ last_op # "train"
    /\ \E w \in Weights : mem' = [mem EXCEPT !["unet"] = w]
    /\ last_op' = "train"
    /\ UNCHANGED <<pc, config, ep, batch, training, requires_grad, stopper,
                   last_stepped, error, hist, stopped_at, pre_restore,
                   label, consolidated, dataVars>>

\* stopper.load_best_weights(unet); last_op counts two restores in a row
ESLoad ==
    /\ pc = "harness"
    /\ last_op # "load2"
    /\ LET r == load_best_weights(stopper[1], "unet", mem) IN
          /\ mem' = r.mem
          /\ error' = (error \/ r.err)
    /\ last_op' = IF last_op = "load" THEN "load2" ELSE "load"
    /\ pre_restore' = IF last_op = "load" THEN pre_restore ELSE <<mem["unet"]>>
    /\ UNCHANGED <<pc, config, ep, batch, training, requires_grad, stopper,
                   last_stepped, hist, stopped_at, label, consolidated, dataVars>>

NextES == ESCall \/ ESTrain \/ ESLoad

SpecES == InitES /\ [][NextES]_vars

\* ------------------------------------------------ claims on the controller

ES == stopper[1]

\* every loss after the first fails the code's improvement test against the
\* first one: -loss < best_score + delta, i.e. loss > best - delta
AllBelowThreshold ==
    \A i \in 2..Len(hist) : hist[i] > hist[1] - ES.delta

\* every loss after the first is "non-improving" in the wider sense of the
\* claim: within delta of the best, a repeat of the best included
AllNonImprovingOrRepeat ==
    \A i \in 2..Len(hist) : hist[i] >= hist[1] \/ hist[i] > hist[1] - ES.delta

StoppedExactlyAtPatience ==
    LET k == Len(hist) - 1 IN
    /\ (k >= ES.patience) <=> ES.early_stop
    /\ (k >= ES.patience) => stopped_at = ES.patience + 1

\* C2 (as stated): after an initial best, a run of non-improving scores,
\* repeats of the best loss included, stops the controller exactly at the
\* patience-th of them.
C2_Original ==
    (Len(hist) >= 2 /\ AllNonImprovingOrRepeat) => StoppedExactlyAtPatience

\* C2 (amended): after an initial best, a run of scores that each satisfy
\* -loss < best_score + delta stops the controller exactly at the
\* patience-th of them, not earlier and not later.
C2_StopsAtPatience ==
    (Len(hist) >= 2 /\ AllBelowThreshold) => StoppedExactlyAtPatience

C2_Witness ==
    /\ Len(hist) = ES.patience + 2
    /\ AllBelowThreshold
    /\ ES.early_stop
    /\ stopped_at = ES.patience + 1

StrictlyDecreasing ==
    \A i \in 1..(Len(hist) - 1) : hist[i + 1] < hist[i]

DecreasingByDelta ==
    \A i \in 1..(Len(hist) - 1) : hist[i + 1] <= hist[i] - ES.delta

\* C3 (as stated): for every patience and delta a strictly decreasing loss
\* sequence never sets early_stop.
C3_Original ==
    StrictlyDecreasing => ~ES.early_stop

\* C3 (amended): a strictly decreasing loss sequence in which every loss is
\* at least delta below the previous one never sets early_stop; with
\* delta = 0 that is every strictly decreasing sequence.
C3_DecreasingNeverStops ==
    (StrictlyDecreasing /\ DecreasingByDelta) => ~ES.early_stop

C3_Witness ==
    /\ Len(hist) >= ES.patience + 2
    /\ StrictlyDecreasing
    /\ DecreasingByDelta
    /\ ES.delta = 1
    /\ ~ES.early_stop

\* C4: the first observation becomes the best score and is snapshotted; a
\* later observation with not (-loss < best_score + delta) becomes the best
\* score, snapshots the model's current weights and zeroes the counter; any
\* other observation leaves the best score and the snapshot as they were.
C4_BestTracking ==
    [][Len(hist') = Len(hist) + 1 =>
        LET s == stopper[1]
            t == stopper'[1]
            score == 0 - hist'[Len(hist')]
        IN
        /\ s.best_score = None =>
              /\ t.best_score = <<score>>
              /\ HasSnapshot(t)
              /\ SnapshotOf(t, mem') = mem["unet"]
        /\ (s.best_score # None /\ ~(score < s.best_score[1] + s.delta)) =>
              /\ t.best_score = <<score>>
              /\ HasSnapshot(t)
              /\ SnapshotOf(t, mem') = mem["unet"]
              /\ t.counter = 0
        /\ (s.best_score # None /\ score < s.best_score[1] + s.delta) =>
              /\ t.best_score = s.best_score
              /\ t.best_model_state_dict = s.best_model_state_dict
              /\ SnapshotOf(t, mem') = SnapshotOf(s, mem)
    ]_vars

C4_Witness ==
    /\ last_op = "call"
    /\ Len(hist) >= 3
    /\ hist[2] > hist[1]
    /\ hist[3] < hist[1] - ES.delta
    /\ ES.best_score = <<0 - hist[Len(hist)]>>
    /\ ES.counter = 0
    /\ SnapshotOf(ES, mem) = mem["unet"]

\* C5: a step that is not an observation (a training step on the live
\* model, a restore) leaves the controller's snapshot as it was.
C5_SnapshotIndependent ==
    [][(Len(hist') = Len(hist) /\ HasSnapshot(stopper[1])) =>
        /\ stopper' = stopper
        /\ SnapshotOf(stopper'[1], mem') = SnapshotOf(stopper[1], mem)
    ]_vars

C5_Witness ==
    /\ last_op = "train"
    /\ HasSnapshot(ES)
    /\ SnapshotOf(ES, mem) # mem["unet"]

\* C9: a restore raises nothing and leaves the controller alone; with a
\* snapshot the model gets the snapshot's weights, without one the model is
\* unchanged; a second restore in a row changes nothing more.
C9_RestoreIdempotentTotal ==
    [][last_op' \in {"load", "load2"} =>
        /\ ~error'
        /\ stopper' = stopper
        /\ IF HasSnapshot(stopper[1])
           THEN mem' = [mem EXCEPT !["unet"] = SnapshotOf(stopper[1], mem)]
           ELSE mem' = mem
        /\ last_op' = "load2" => mem' = mem
    ]_vars

C9_Witness ==
    /\ last_op = "load2"
    /\ HasSnapshot(ES)
    /\ pre_restore[1] # mem["unet"]
    /\ mem["unet"] = SnapshotOf(ES, mem)

\* ------------------------------------------------------ consolidate_labels
\* A label is a Python string, modelled as the sequence of its characters.

\* the upper-case letters of the inputs and their lower-case forms
LowerMap == [B |-> "b", C |-> "c", D |-> "d", E |-> "e", F |-> "f", G |-> "g", H |-> "h", I |-> "i", L |-> "l", N |-> "n", O |-> "o", P |-> "p", Q |-> "q", S |-> "s", T |-> "t"]

\* str.lower()
Lower(text) ==
    [i \in 1..Len(text) |-> IF text[i] \in DOMAIN LowerMap THEN LowerMap[text[i]] ELSE text[i]]

\* sub in text
Contains(sub, text) ==
    \E i \in 0..(Len(text) - Len(sub)) : \A j \in 1..Len(sub) : text[i + j] = sub[j]

KwBenign == <<"b", "e", "n", "i", "g", "n">>
KwDDoS == <<"d", "d", "o", "s">>
KwDoS == <<"d", "o", "s">>
KwBot == <<"b", "o", "t">>
KwInfil == <<"i", "n", "f", "i", "l">>
\* ['brute', 'bruteforce', 'ssh', 'ftp', 'web', 'xss', 'sql']
KwBruteForce == {<<"b", "r", "u", "t", "e">>,
                 <<"b", "r", "u", "t", "e", "f", "o", "r", "c", "e">>,
                 <<"s", "s", "h">>,
                 <<"f", "t", "p">>,
                 <<"w", "e", "b">>,
                 <<"x", "s", "s">>,
                 <<"s", "q", "l">>}

SixClasses == {"Benign", "DoS", "DDoS", "Botnet", "Infiltration", "Brute Force"}

\* an else branch that files unknown categories under a class of their own
Fallback_unknown == "Unknown"

\* else: consolidated.append('Brute Force')
Fallback == "Brute Force"

\* the rules with 'dos' tried before 'ddos'
ConsolidateLabel_dosfirst(lbl) ==
    LET label_lower == Lower(lbl) IN
    IF Contains(KwBenign, label_lower) THEN "Benign"
    ELSE IF Contains(KwDoS, label_lower) THEN "DoS"
    ELSE IF Contains(KwDDoS, label_lower) THEN "DDoS"
    ELSE IF Contains(KwBot, label_lower) THEN "Botnet"
    ELSE IF Contains(KwInfil, label_lower) THEN "Infiltration"
    ELSE IF \E x \in KwBruteForce : Contains(x, label_lower) THEN "Brute Force"
    ELSE Fallback

\* the body of the loop of consolidate_labels, for one label
ConsolidateLabel(lbl) ==
    LET label_lower == Lower(lbl) IN
    IF Contains(KwBenign, label_lower) THEN "Benign"
    ELSE IF Contains(KwDDoS, label_lower) THEN "DDoS"
    ELSE IF Contains(KwDoS, label_lower) THEN "DoS"
    ELSE IF Contains(KwBot, label_lower) THEN "Botnet"
    ELSE IF Contains(KwInfil, label_lower) THEN "Infiltration"
    ELSE IF \E x \in KwBruteForce : Contains(x, label_lower) THEN "Brute Force"
    ELSE Fallback

\* pieces the input labels are put together from
Fragments == {
    <<"B", "E", "N", "I", "G", "N">>,
    <<"B", "e", "n", "i", "g", "n">>,
    <<"D", "D", "O", "S">>,
    <<"D", "o", "S">>,
    <<"D">>,
    <<"B", "o", "t">>,
    <<"I", "n", "f", "i", "l">>,
    <<"F", "T", "P">>,
    <<"-", "B", "r", "u", "t", "e", "F", "o", "r", "c", "e">>,
    <<"S", "Q", "L">>,
    <<"-", "T", "r", "a", "f", "f", "i", "c">>,
    <<" ", "a", "t", "t", "a", "c", "k", "-", "H", "O", "I", "C">>,
    <<"t", "e", "r", "a", "t", "i", "o", "n">> }

RECURSIVE Text(_)
\* the string a sequence of pieces spells
Text(pieces) == IF pieces = <<>> THEN <<>> ELSE Head(pieces) \o Text(Tail(pieces))

InitLabels ==
    /\ pc = "labels"
    /\ config = [unet_epochs |-> 0, classifier_epochs |-> 0, patience |-> 1]
    /\ ep = 0
    /\ batch = 0
    /\ mem = [m \in Modules |-> 0]
    /\ training = [m \in Modules |-> TRUE]
    /\ requires_grad = [m \in Modules |-> TRUE]
    /\ stopper = <<>>
    /\ last_stepped = {}
    /\ error = FALSE
    /\ hist = <<>>
    /\ stopped_at = 0
    /\ last_op = "new"
    /\ pre_restore = <<>>
    /\ label = <<>>
    /\ consolidated = <<>>
    /\ table = None
    /\ dataset = None
    /\ view = None

\* the next label of the input column is read, piece by piece
ReadLabel ==
    /\ pc = "labels"
    /\ Len(consolidated) < MaxLabels
    /\ \E f \in Fragments :
          \/ /\ last_op = "consolidate"
             /\ label' = <<f>>
          \/ /\ last_op # "consolidate"
             /\ Len(label) < MaxFrags
             /\ label' = Append(label, f)
    /\ last_op' = "read"
    /\ UNCHANGED <<trainVars, hist, stopped_at, consolidated, dataVars>>

\* one iteration of "for label in labels": the label's class is appended
ConsolidateNext ==
    /\ pc = "labels"
    /\ Len(consolidated) < MaxLabels
    /\ last_op # "consolidate"
    /\ consolidated' = Append(consolidated, ConsolidateLabel(Text(label)))
    /\ last_op' = "consolidate"
    /\ UNCHANGED <<trainVars, hist, stopped_at, label, dataVars>>

NextLabels == ReadLabel \/ ConsolidateNext

SpecLabels == InitLabels /\ [][NextLabels]_vars

\* ------------------------------------------- claims on label consolidation

AllKeywords == {KwBenign, KwDDoS, KwDoS, KwBot, KwInfil} \cup KwBruteForce

MatchesNoKeyword(text) == \A k \in AllKeywords : ~Contains(k, Lower(text))

\* C10: every label gets exactly one class, one of the six, and a label
\* that matches no keyword gets Brute Force.
C10_ConsolidationTotal ==
    /\ \A i \in 1..Len(consolidated) : consolidated[i] \in SixClasses
    /\ last_op = "consolidate" =>
          /\ Len(consolidated) >= 1
          /\ MatchesNoKeyword(Text(label)) =>
                consolidated[Len(consolidated)] = "Brute Force"

\* a mixed-case label without any keyword went to Brute Force
C10_Witness ==
    /\ last_op = "consolidate"
    /\ Len(label) = 2
    /\ MatchesNoKeyword(Text(label))
    /\ consolidated[Len(consolidated)] = "Brute Force"

\* the keyword rules in the order of the claim, each with its class
RuleKeywords ==
    <<{KwBenign}, {KwDDoS}, {KwDoS}, {KwBot}, {KwInfil}, KwBruteForce>>
RuleClass ==
    <<"Benign", "DDoS", "DoS", "Botnet", "Infiltration", "Brute Force">>
RuleMatches(i, text) == \E k \in RuleKeywords[i] : Contains(k, Lower(text))

\* C11: a label gets the class of the first rule, in the order benign, ddos,
\* dos, bot, infil, brute-force family, that has a keyword in the
\* lower-cased label; so a label with 'ddos' and without 'benign' is DDoS.
\* The five example labels get Benign, Benign, DDoS, Brute Force, Infiltration.
C11_PriorityOrder ==
    /\ last_op = "consolidate" =>
          /\ Len(consolidated) >= 1
          /\ \A i \in 1..6 :
                (RuleMatches(i, Text(label)) /\ \A j \in 1..(i - 1) : ~RuleMatches(j, Text(label)))
                   => consolidated[Len(consolidated)] = RuleClass[i]
          /\ (RuleMatches(2, Text(label)) /\ ~RuleMatches(1, Text(label)))
                => consolidated[Len(consolidated)] = "DDoS"
    /\ ConsolidateLabel(<<"B", "E", "N", "I", "G", "N">>) = "Benign"
    /\ ConsolidateLabel(<<"B", "e", "n", "i", "g", "n", "-", "T", "r", "a", "f", "f", "i", "c">>) = "Benign"
    /\ ConsolidateLabel(<<"D", "D", "O", "S", " ", "a", "t", "t", "a", "c", "k", "-", "H", "O", "I", "C">>) = "DDoS"
    /\ ConsolidateLabel(<<"F", "T", "P", "-", "B", "r", "u", "t", "e", "F", "o", "r", "c", "e">>) = "Brute Force"
    /\ ConsolidateLabel(<<"I", "n", "f", "i", "l", "t", "e", "r", "a", "t", "i", "o", "n">>) = "Infiltration"

\* a label with keywords of the ddos, dos and bot rules went to DDoS
C11_Witness ==
    /\ last_op = "consolidate"
    /\ RuleMatches(2, Text(label))
    /\ RuleMatches(3, Text(label))
    /\ RuleMatches(4, Text(label))
    /\ ~RuleMatches(1, Text(label))
    /\ consolidated[Len(consolidated)] = "DDoS"

\* the least loss of a non-empty history
MinOf(seq) ==
    CHOOSE x \in {seq[i] : i \in DOMAIN seq} :
        \A i \in DOMAIN seq : x <= seq[i]

\* C19: with delta = 0, after one or more observations val_loss_min is the
\* least loss observed and best_score its negation, a snapshot exists, and an
\* unstopped controller's counter is below patience; an observation at or
\* below every earlier loss snapshots the model's weights of that moment and
\* zeroes the counter, any other observation and any other operation leaves
\* the snapshot's weights as they were.
C19_DeltaZeroMinimum ==
    /\ []((pc = "harness" /\ ES.delta = 0 /\ Len(hist) >= 1) =>
            /\ ES.val_loss_min = MinOf(hist)
            /\ ES.best_score = <<0 - MinOf(hist)>>
            /\ HasSnapshot(ES)
            /\ ~ES.early_stop => ES.counter < ES.patience)
    /\ [][(pc = "harness" /\ ES.delta = 0) =>
            IF Len(hist') = Len(hist) + 1
            THEN IF Len(hist) = 0 \/ hist'[Len(hist')] <= MinOf(hist)
                 THEN /\ SnapshotOf(ES', mem') = mem["unet"]
                      /\ ES'.counter = 0
                 ELSE /\ SnapshotOf(ES', mem') = SnapshotOf(ES, mem)
                      /\ ES'.counter = ES.counter + 1
            ELSE HasSnapshot(ES) =>
                    /\ HasSnapshot(ES')
                    /\ SnapshotOf(ES', mem') = SnapshotOf(ES, mem)]_vars

\* the best loss was observed again after the model had been trained, and the
\* snapshot now holds the trained weights
C19_Witness ==
    /\ pc = "harness"
    /\ ES.delta = 0
    /\ last_op = "call"
    /\ Len(hist) = 3
    /\ hist[1] > hist[2]
    /\ hist[3] = hist[2]
    /\ ES.val_loss_min = hist[3]
    /\ ES.counter = 0
    /\ ~ES.early_stop
    /\ SnapshotOf(ES, mem) = mem["unet"]
    /\ mem["unet"] # 0

\* ------------------------------------- feature images and dataset (SpecData)

Zeros(n) == [i \in 1..n |-> 0]
\* channel features whose zeros come before the remaining values
ChannelFeatures_prepad(feature_vector, c, features_per_channel) ==
    LET start_idx == c * features_per_channel
        end_idx == start_idx + features_per_channel
        available == Len(feature_vector) - start_idx
    IN  IF end_idx <= Len(feature_vector)
        THEN SubSeq(feature_vector, start_idx + 1, end_idx)
        ELSE IF available > 0
             THEN Zeros(features_per_channel - available)
                  \o SubSeq(feature_vector, start_idx + 1, Len(feature_vector))
             ELSE Zeros(features_per_channel)

\* the features of channel c (counted from 0): a full slice, the rest of the
\* vector followed by zeros, or zeros only
ChannelFeatures(feature_vector, c, features_per_channel) ==
    LET start_idx == c * features_per_channel
        end_idx == start_idx + features_per_channel
        available == Len(feature_vector) - start_idx
    IN  IF end_idx <= Len(feature_vector)
        THEN SubSeq(feature_vector, start_idx + 1, end_idx)
        ELSE IF available > 0
             THEN SubSeq(feature_vector, start_idx + 1, Len(feature_vector))
                  \o Zeros(features_per_channel - available)
             ELSE Zeros(features_per_channel)

\* numpy reshape((image_size, image_size)) of a flat vector, row-major
Reshape(flat, image_size) ==
    [r \in 1..image_size |->
        [col \in 1..image_size |-> flat[(r - 1) * image_size + col]]]

\* reshape raises ValueError unless the vector has image_size^2 values
ReshapeFails(features_per_channel, image_size) ==
    features_per_channel # image_size * image_size

features_to_multichannel_image(feature_vector, num_channels, features_per_channel, image_size) ==
    [c \in 1..num_channels |->
        Reshape(ChannelFeatures(feature_vector, c - 1, features_per_channel),
                image_size)]

Reverse(seq) == [i \in 1..Len(seq) |-> seq[Len(seq) + 1 - i]]

\* TF.hflip: the last dimension (columns) is reversed
hflip(img) == [c \in DOMAIN img |-> [r \in DOMAIN img[c] |-> Reverse(img[c][r])]]

\* TF.vflip: the rows are reversed
vflip(img) == [c \in DOMAIN img |-> Reverse(img[c])]

\* outcomes of random.random(), in hundredths, on both sides of flip_prob
Draws == {FlipProb - 1, FlipProb}
\* an augmentation test that ignores the label
ShouldAugment_anylabel(self, lbl) == self.augment

\* the augmentation test of __getitem__
ShouldAugment(self, lbl) == self.augment /\ lbl \in self.minority_classes

Flipped(self, img, r1, r2) ==
    LET h == IF r1 < self.flip_prob THEN hflip(img) ELSE img
    IN  IF r2 < self.flip_prob THEN vflip(h) ELSE h
\* a __getitem__ that flips self.images[idx] itself instead of a clone
getitem_noclone(self, idx, r1, r2) ==
    LET img == self.images[idx]
        lbl == self.labels[idx]
        out == IF ShouldAugment(self, lbl) THEN Flipped(self, img, r1, r2) ELSE img
    IN  [self |-> [self EXCEPT !.images[idx] = out],
         img |-> out,
         lbl |-> lbl]

\* MultichannelFlowDataset.__getitem__: the returned pair and the dataset
\* after the call
getitem(self, idx, r1, r2) ==
    LET img == self.images[idx]
        lbl == self.labels[idx]
    IN  [self |-> self,
         img |-> IF ShouldAugment(self, lbl) THEN Flipped(self, img, r1, r2) ELSE img,
         lbl |-> lbl]

\* a feature row of k values, told apart by position and none of them zero
FeatureRow(k) == [i \in 1..k |-> i]

Samples ==
    UNION {[1..n -> {[feats |-> FeatureRow(k), lbl |-> l] :
                        k \in 0..MaxRowLen, l \in 0..MaxClass}] : n \in 1..MaxSamples}

\* the arguments of MultichannelFlowDataset(...): rows and labels, a geometry
\* that reshape accepts or one value too many per channel, augment,
\* minority_classes (None is stored as the empty list)
InitData ==
    /\ pc = "data_new"
    /\ config = [unet_epochs |-> 0, classifier_epochs |-> 0, patience |-> 1]
    /\ ep = 0
    /\ batch = 0
    /\ mem = [m \in {"masker"} |-> 0]
    /\ training = [m \in Modules |-> TRUE]
    /\ requires_grad = [m \in Modules |-> TRUE]
    /\ stopper = <<>>
    /\ last_stepped = {}
    /\ error = FALSE
    /\ hist = <<>>
    /\ stopped_at = 0
    /\ last_op = "new"
    /\ pre_restore = <<>>
    /\ label = <<>>
    /\ consolidated = <<>>
    /\ table = None
    /\ \E smp \in Samples, nc \in 1..MaxChannels, sz \in 1..MaxImageSize,
          extra \in {0, 1}, aug \in BOOLEAN, mc \in SUBSET (0..MaxClass) :
          dataset = <<[feature_array |-> [i \in DOMAIN smp |-> smp[i].feats],
                       labels |-> [i \in DOMAIN smp |-> smp[i].lbl],
                       num_channels |-> nc,
                       features_per_channel |-> sz * sz + extra,
                       image_size |-> sz,
                       augment |-> aug,
                       minority_classes |-> mc,
                       flip_prob |-> FlipProb,
                       images |-> <<>>]>>
    /\ view = None

\* MultichannelFlowDataset.__init__: one image per row
Construct ==
    /\ pc = "data_new"
    /\ LET self == dataset[1]
       IN  IF ReshapeFails(self.features_per_channel, self.image_size)
           THEN /\ error' = TRUE
                /\ pc' = "data_failed"
                /\ UNCHANGED dataset
           ELSE /\ dataset' = <<[self EXCEPT !.images =
                     [i \in DOMAIN self.feature_array |->
                         features_to_multichannel_image(self.feature_array[i],
                             self.num_channels, self.features_per_channel,
                             self.image_size)]]>>
                /\ pc' = "data"
                /\ UNCHANGED error
    /\ last_op' = "construct"
    /\ UNCHANGED <<config, ep, batch, mem, training, requires_grad, stopper,
                   last_stepped, pre_restore, hist, stopped_at, labelVars,
                   table, view>>

\* one __getitem__(idx) with its two random draws
Fetch ==
    /\ pc = "data"
    /\ \E idx \in DOMAIN dataset[1].labels, r1 \in Draws, r2 \in Draws :
          LET out == getitem(dataset[1], idx, r1, r2)
          IN  /\ dataset' = <<out.self>>
              /\ view' = <<[idx |-> idx, img |-> out.img, lbl |-> out.lbl]>>
    /\ last_op' = "getitem"
    /\ UNCHANGED <<trainVars, hist, stopped_at, labelVars, table>>

NextData == Construct \/ Fetch

SpecData == InitData /\ [][NextData]_vars

DS == dataset[1]

Total(self) == self.num_channels * self.features_per_channel

\* the first total values of the vector, zeros where it has none
PaddedOrTruncated(feature_vector, total) ==
    [i \in 1..total |-> IF i <= Len(feature_vector) THEN feature_vector[i] ELSE 0]

\* an image read channel by channel, row by row
FlattenChannelMajor(img, num_channels, image_size) ==
    LET per == image_size * image_size
    IN  [i \in 1..(num_channels * per) |->
            img[((i - 1) \div per) + 1]
               [(((i - 1) % per) \div image_size) + 1]
               [((i - 1) % image_size) + 1]]

\* C12: with image_size^2 = features_per_channel the mapper raises nothing
\* and each image, flattened channel-major, is the feature row zero-padded to
\* num_channels * features_per_channel values when the row is at most that
\* long, and the first that many values of the row when it is longer.
C12_MapperPadsOrTruncates ==
    (last_op = "construct" /\ DS.features_per_channel = DS.image_size * DS.image_size)
        => /\ pc = "data"
           /\ error = FALSE
           /\ \A i \in DOMAIN DS.feature_array :
                 FlattenChannelMajor(DS.images[i], DS.num_channels, DS.image_size)
                     = PaddedOrTruncated(DS.feature_array[i], Total(DS))

\* a row that ends inside the second channel was mapped
C12_Witness ==
    /\ last_op = "construct"
    /\ pc = "data"
    /\ DS.num_channels >= 2
    /\ \E i \in DOMAIN DS.feature_array :
          /\ Len(DS.feature_array[i]) > DS.features_per_channel
          /\ Len(DS.feature_array[i]) < Total(DS)
          /\ Len(DS.images[i]) = DS.num_channels

\* C13: whatever was fetched, with whatever flips, the stored images are the
\* images built at construction; a flip shows only in the returned copy.
C13_StoredImagesImmutable ==
    /\ [](pc = "data" =>
            DS.images = [i \in DOMAIN DS.feature_array |->
                            features_to_multichannel_image(DS.feature_array[i],
                                DS.num_channels, DS.features_per_channel,
                                DS.image_size)])
    /\ [][pc = "data" => DS'.images = DS.images]_vars

\* a fetch returned a flipped copy
C13_Witness ==
    /\ last_op = "getitem"
    /\ view # None
    /\ view[1].img # DS.images[view[1].idx]
    /\ view[1].img \in {hflip(DS.images[view[1].idx]), vflip(DS.images[view[1].idx]),
                        vflip(hflip(DS.images[view[1].idx]))}

\* C14: a fetch returns the stored image itself unless the dataset augments
\* and the sample's label is a minority class; datasets built with
\* augment=False and majority samples always give the same view.
C14_FlipOnlyMinorityAugmented ==
    (last_op = "getitem" /\ ~(DS.augment /\ view[1].lbl \in DS.minority_classes))
        => /\ view[1].img = DS.images[view[1].idx]
           /\ view[1].lbl = DS.labels[view[1].idx]

\* a majority sample of an augmenting dataset, whose image a flip would change
C14_Witness ==
    /\ last_op = "getitem"
    /\ DS.augment
    /\ DS.minority_classes # {}
    /\ view[1].lbl \notin DS.minority_classes
    /\ hflip(DS.images[view[1].idx]) # DS.images[view[1].idx]
    /\ view[1].img = DS.images[view[1].idx]

====
